---- MODULE Spec2Model ----
(***************************************************************************)
(* Release Retrospective Analyzer: the loader, the trend aggregator, the   *)
(* chronology resolver and the two entry points (the interactive main of   *)
(* retrospective_analyzer.py and the demo main of demo_analysis.py).       *)
(*                                                                         *)
(* Representation.  File names, period labels, column names and answers    *)
(* are strings.  A cell is <<>> when missing (NaN) and <<v>> when it holds *)
(* the answer v.  A Dataset (DataFrame) is [columns, rows], each row a     *)
(* sequence of cells aligned with columns.  A dict is the sequence of its  *)
(* items in insertion order.  A percentage is the integer number of        *)
(* hundredths of a percent (66.67 is 6667).                                *)
(***************************************************************************)
EXTENDS Integers, Sequences, FiniteSets, TLC

VARIABLES
    mode,                 \* "interactive" (retrospective_analyzer) or "demo"
    dir,                  \* os.listdir('.'): sequence of [name, content]
    pc,                   \* position in main
    excel_files,          \* the matching files, in listing order
    idx,                  \* position of the load loop in excel_files
    data,                 \* the loaded mapping: sequence of [month, df]
    reports,              \* the files whose failure was reported
    out,                  \* what was displayed: sequence of [kind, months]
    available_questions,  \* the list built from the first Dataset
    ai_question,          \* demo: <<>> (None) or <<col>>
    trends,               \* the Trend Map: sequence of [month, pct]
    exc,                  \* the exception that left main, "none" if none
    question_categories,  \* interactive: sequence of [name, questions]
    question_column,      \* SpecTrend: target column of analyze_question_trends
    keys,                 \* SpecOrder: the labels given to sorted()/max()
    sort_keys,            \* SpecOrder: the key sorted() computed per label
    sorted_months,        \* SpecOrder: result of sorted(keys, key=...)
    most_recent           \* SpecOrder: <<>> or <<max(keys, key=...)>>

vars == <<mode, dir, pc, excel_files, idx, data, reports, out,
          available_questions, ai_question, trends, exc, question_categories,
          question_column, keys, sort_keys, sorted_months, most_recent>>

mainVars == <<mode, dir, excel_files, idx, reports, out,
              available_questions, ai_question, exc, question_categories>>
orderVars == <<keys, sort_keys, sorted_months, most_recent>>

----------------------------------------------------------------------------
(* Bounds *)

MaxFiles == 3
MaxRows == 3
MaxSumRows == 7
MaxSumValues == 7
MaxKeys == 2

----------------------------------------------------------------------------
(* Strings *)

Range(s) == {s[n] : n \in DOMAIN s}

CharAt(s, n) == SubSeq(s, n, n)

\* str.split() with no argument splits on runs of whitespace
IsSpace(c) == c \in {" ", "\t"}

endswith(s, suffix) ==
    /\ Len(s) >= Len(suffix)
    /\ SubSeq(s, Len(s) - Len(suffix) + 1, Len(s)) = suffix

\* sub in s
contains(s, sub) ==
    \E n \in 1..(Len(s) - Len(sub) + 1) : SubSeq(s, n, n + Len(sub) - 1) = sub

Upper == <<"A","B","C","D","E","F","G","H","I","J","K","L","M",
           "N","O","P","Q","R","S","T","U","V","W","X","Y","Z">>
Lower == <<"a","b","c","d","e","f","g","h","i","j","k","l","m",
           "n","o","p","q","r","s","t","u","v","w","x","y","z">>

LowerChar(c) ==
    IF \E n \in 1..26 : Upper[n] = c
    THEN Lower[CHOOSE n \in 1..26 : Upper[n] = c]
    ELSE c

RECURSIVE lower(_)
lower(s) ==
    IF s = "" THEN ""
    ELSE LowerChar(CharAt(s, 1)) \o lower(SubSeq(s, 2, Len(s)))

\* whether file.split() is non-empty, i.e. file.split()[0] does not raise
HasToken(s) == \E n \in 1..Len(s) : ~IsSpace(CharAt(s, n))

TokenStart(s) == CHOOSE n \in 1..Len(s) :
    /\ ~IsSpace(CharAt(s, n))
    /\ \A m \in 1..(n - 1) : IsSpace(CharAt(s, m))

TokenEnd(s, from) == CHOOSE n \in from..Len(s) :
    /\ \A m \in from..n : ~IsSpace(CharAt(s, m))
    /\ (n = Len(s) \/ IsSpace(CharAt(s, n + 1)))

\* file.split()[0]
FirstToken(s) == SubSeq(s, TokenStart(s), TokenEnd(s, TokenStart(s)))

\* the order of str comparison (code points) on the characters in use
CodePoints == " .0123456789ABCDEFGHIJKLMNOPQRSTUVWXYZabcdefghijklmnopqrstuvwxyz"

Ord(c) == CHOOSE n \in 1..Len(CodePoints) : CharAt(CodePoints, n) = c

RECURSIVE StrLess(_, _)
StrLess(a, b) ==
    IF b = "" THEN FALSE
    ELSE IF a = "" THEN TRUE
    ELSE IF CharAt(a, 1) = CharAt(b, 1)
         THEN StrLess(SubSeq(a, 2, Len(a)), SubSeq(b, 2, Len(b)))
         ELSE Ord(CharAt(a, 1)) < Ord(CharAt(b, 1))

\* sorted(seq, ...): stable; less[a][b] tells whether the element at a
\* orders strictly before the element at b
sorted(seq, less) ==
    LET n == Len(seq)
        rank(a) == 1 + Cardinality({b \in 1..n :
                        \/ less[b][a]
                        \/ (~less[a][b] /\ b < a)})
    IN  [r \in 1..n |-> seq[CHOOSE a \in 1..n : rank(a) = r]]

----------------------------------------------------------------------------
(* Chronology Resolver *)

month_mapping ==
    ("January" :> 1) @@ ("February" :> 2) @@ ("March" :> 3) @@ ("April" :> 4) @@
    ("May" :> 5) @@ ("June" :> 6) @@ ("July" :> 7) @@ ("August" :> 8) @@
    ("September" :> 9) @@ ("October" :> 10) @@ ("November" :> 11) @@
    ("December" :> 12)

extract_month_order_zero(month_name) ==
    IF month_name \in DOMAIN month_mapping THEN month_mapping[month_name] ELSE 0

\* month_mapping.get(month_name, 13)
extract_month_order(month_name) ==
    IF month_name \in DOMAIN month_mapping THEN month_mapping[month_name] ELSE 13

ChronoLess(a, b) == extract_month_order(a) < extract_month_order(b)

\* sorted(months, key=extract_month_order)
sorted_chrono(months) ==
    sorted(months, [a \in 1..Len(months) |->
                      [b \in 1..Len(months) |-> ChronoLess(months[a], months[b])]])

\* sorted(months): the demo's plain sort of the labels
sorted_alpha(months) ==
    sorted(months, [a \in 1..Len(months) |->
                      [b \in 1..Len(months) |-> StrLess(months[a], months[b])]])

\* max(months, key=extract_month_order): the first of the greatest
max_chrono(months) ==
    months[CHOOSE a \in 1..Len(months) :
        /\ \A b \in 1..Len(months) : ~ChronoLess(months[a], months[b])
        /\ \A b \in 1..(a - 1) : ChronoLess(months[b], months[a])]

----------------------------------------------------------------------------
(* Datasets and dicts *)

None == <<>>

\* df[column]: the cells of the column, in row order
Column(df, column) ==
    LET c == CHOOSE n \in 1..Len(df.columns) : df.columns[n] = column
    IN  [r \in 1..Len(df.rows) |-> df.rows[r][c]]

\* series.dropna()
dropna(series) == SelectSeq(series, LAMBDA cell : cell # None)

DictKeys(d) == [n \in 1..Len(d) |-> d[n].month]

DictPutKeepFirst(d, k, v) ==
    IF \E n \in 1..Len(d) : d[n].month = k
    THEN d
    ELSE Append(d, [month |-> k, df |-> v])

\* d[k] = v: an existing key keeps its place and takes the new value
DictPut(d, k, v) ==
    IF \E n \in 1..Len(d) : d[n].month = k
    THEN [n \in 1..Len(d) |-> IF d[n].month = k THEN [month |-> k, df |-> v] ELSE d[n]]
    ELSE Append(d, [month |-> k, df |-> v])

----------------------------------------------------------------------------
(* Trend Aggregator *)

\* series.value_counts(): the count of each distinct non-missing value
value_counts(series) ==
    [v \in {cell[1] : cell \in Range(dropna(series))} |->
        Cardinality({r \in 1..Len(series) : series[r] = <<v>>})]

\* len(series.dropna())
total_responses(series) == Len(dropna(series))

round2_down(num, den) == num \div den

\* round(num / den, 2) in hundredths when num is already scaled by 100:
\* the nearest integer to num / den, a tie going to the even one
round2(num, den) ==
    LET q == num \div den
        r == num % den
    IN  IF 2 * r > den \/ (2 * r = den /\ q % 2 = 1) THEN q + 1 ELSE q

\* (value_counts / total_responses * 100).round(2).to_dict()
percentages(counts, total) ==
    [v \in DOMAIN counts |-> round2(counts[v] * 100 * 100, total)]

HasColumn(df, column) == column \in Range(df.columns)

QualifiesAnyCount(df, column) == HasColumn(df, column)

\* the two conditions under which a period enters the Trend Map
Qualifies(df, column) ==
    /\ HasColumn(df, column)
    /\ total_responses(Column(df, column)) > 0

analyze_question_trends(d, column) ==
    LET kept == SelectSeq(d, LAMBDA item : Qualifies(item.df, column))
    IN  [n \in 1..Len(kept) |->
            [month |-> kept[n].month,
             pct |-> percentages(value_counts(Column(kept[n].df, column)),
                                 total_responses(Column(kept[n].df, column)))]]

TrendKeys(t) == [n \in 1..Len(t) |-> t[n].month]

----------------------------------------------------------------------------
(* Loader *)

\* f.endswith('.xlsx') and 'Retrospective' in f
Matches(f) == endswith(f, ".xlsx") /\ contains(f, "Retrospective")

list_excel_files(listing) == SelectSeq(listing, LAMBDA file : Matches(file.name))

\* whether the body of the try block runs to its end for this file
Loads(file) == HasToken(file.name) /\ file.content # <<>>

load_one_dropping(d, file) ==
    IF Loads(file) THEN DictPut(d, FirstToken(file.name), file.content[1]) ELSE <<>>

\* one pass of the loop body: the mapping after the file
load_one(d, file) ==
    IF Loads(file) THEN DictPut(d, FirstToken(file.name), file.content[1]) ELSE d

----------------------------------------------------------------------------
(* main, both entry points *)

NoDataNever(d) == FALSE

\* not data
NoData(d) == Len(d) = 0

available_with_timestamp(d) == d[1].df.columns

\* [col for col in list(data.values())[0].columns if col != 'Timestamp']
available(d) == SelectSeq(d[1].df.columns, LAMBDA col : col # "Timestamp")

\* [col for col in available_questions if any(keyword in col.lower() ...)]
Bucket(questions, keywords) ==
    SelectSeq(questions, LAMBDA col : \E keyword \in keywords : contains(lower(col), keyword))

CategoryNames == <<"Team & Organization", "AI & Efficiency", "Release Planning",
                   "Agile Ceremonies", "Process & Support", "Other">>

\* the dict display of question_categories; its 'Other' entry reads
\* question_categories itself, unbound until the display is assigned, as
\* soon as the comprehension visits a first column
CategoriesRaise(questions) == questions # <<>>

categories(questions) ==
    << [name |-> CategoryNames[1],
        questions |-> Bucket(questions, {"team", "scrum", "org", "director"})],
       [name |-> CategoryNames[2],
        questions |-> Bucket(questions, {"ai", "efficiency", "productivity"})],
       [name |-> CategoryNames[3],
        questions |-> Bucket(questions, {"planning", "commitment", "timeline"})],
       [name |-> CategoryNames[4],
        questions |-> Bucket(questions, {"sprint", "standup", "retrospective", "ceremony"})],
       [name |-> CategoryNames[5],
        questions |-> Bucket(questions, {"process", "support", "capacity", "jira"})],
       [name |-> CategoryNames[6], questions |-> <<>>] >>

\* demo: the first column with 'AI' in col and 'efficiency' in col.lower()
pick_ai_question(questions) ==
    LET hits == SelectSeq(questions,
                    LAMBDA col : contains(col, "AI") /\ contains(lower(col), "efficiency"))
    IN  IF hits = <<>> THEN None ELSE <<hits[1]>>

Shown(kind, months) == [kind |-> kind, months |-> months]

----------------------------------------------------------------------------
(* The inputs of a run: a directory listing *)

FileNames == {"March Retrospective.xlsx", "April Retrospective.xlsx",
              "March v2 Retrospective.xlsx", "Q3 Retrospective.xlsx",
              "March Summary.xlsx", "Retrospective notes.txt"}

DF_AI == [columns |-> <<"Timestamp", "AI tools and efficiency", "Lunch">>,
          rows |-> << << <<"t1">>, <<"Yes">>, <<"Good">> >>,
                      << <<"t2">>, None, <<"Good">> >> >>]

DF_TS == [columns |-> <<"Timestamp">>,
          rows |-> << << <<"t1">> >> >>]

DF_SPRINT == [columns |-> <<"Sprint planning", "AI tools and efficiency">>,
              rows |-> << << <<"Useful">>, None >> >>]

Parsed == {<<DF_AI>>, <<DF_TS>>, <<DF_SPRINT>>}

\* what pd.read_excel makes of a file: <<>> when it raises, <<df>> otherwise
ContentsOf(name) == IF Matches(name) THEN {<<>>} \cup Parsed ELSE {<<>>}

Listings ==
    UNION {{names \in [1..n -> FileNames] :
                \A a, b \in 1..n : a # b => names[a] # names[b]} : n \in 0..MaxFiles}

Idle == "idle"

Init ==
    /\ mode \in {"interactive", "demo"}
    /\ \E names \in Listings :
         \E contents \in [1..Len(names) -> {<<>>} \cup Parsed] :
            /\ \A n \in 1..Len(names) : contents[n] \in ContentsOf(names[n])
            /\ dir = [n \in 1..Len(names) |-> [name |-> names[n], content |-> contents[n]]]
    /\ pc = "start"
    /\ excel_files = <<>>
    /\ idx = 1
    /\ data = <<>>
    /\ reports = <<>>
    /\ out = <<>>
    /\ available_questions = <<>>
    /\ ai_question = None
    /\ trends = <<>>
    /\ exc = "none"
    /\ question_categories = <<>>
    /\ question_column = Idle
    /\ keys = <<>>
    /\ sort_keys = <<>>
    /\ sorted_months = <<>>
    /\ most_recent = <<>>

\* excel_files = [f for f in os.listdir('.') if ...]
ListDir ==
    /\ pc = "start"
    /\ excel_files' = list_excel_files(dir)
    /\ idx' = 1
    /\ pc' = "load"
    /\ UNCHANGED <<mode, dir, data, reports, out, available_questions, ai_question,
                   trends, exc, question_categories, question_column>>
    /\ UNCHANGED orderVars

\* for file in excel_files: try: ... except Exception as e: report
LoadFile ==
    /\ pc = "load"
    /\ idx <= Len(excel_files)
    /\ data' = load_one(data, excel_files[idx])
    /\ reports' = IF Loads(excel_files[idx]) THEN reports
                  ELSE Append(reports, excel_files[idx].name)
    /\ idx' = idx + 1
    /\ UNCHANGED <<mode, dir, pc, excel_files, out, available_questions, ai_question,
                   trends, exc, question_categories, question_column>>
    /\ UNCHANGED orderVars

\* return data; if not data: report and return
CheckData ==
    /\ pc = "load"
    /\ idx > Len(excel_files)
    /\ IF NoData(data)
       THEN /\ out' = Append(out, Shown("no_data", <<>>))
            /\ pc' = "done"
       ELSE /\ out' = out
            /\ pc' = "summary"
    /\ UNCHANGED <<mode, dir, excel_files, idx, data, reports, available_questions,
                   ai_question, trends, exc, question_categories, question_column>>
    /\ UNCHANGED orderVars

\* interactive: create_summary_metrics and the four metric cards;
\* demo: the printed totals
Summary ==
    /\ pc = "summary"
    /\ IF mode = "interactive"
       THEN IF data = <<>>
            THEN /\ exc' = "ValueError"
                 /\ pc' = "crashed"
                 /\ out' = out
            ELSE /\ out' = Append(out, Shown("metrics", <<max_chrono(DictKeys(data))>>))
                 /\ pc' = "questions"
                 /\ exc' = exc
       ELSE /\ out' = Append(out, Shown("summary", <<>>))
            /\ pc' = "questions"
            /\ exc' = exc
    /\ UNCHANGED <<mode, dir, excel_files, idx, data, reports, available_questions,
                   ai_question, trends, question_categories, question_column>>
    /\ UNCHANGED orderVars

\* sample_df = list(data.values())[0]; available_questions = [...]
Questions ==
    /\ pc = "questions"
    /\ IF data = <<>>
       THEN /\ exc' = "IndexError"
            /\ pc' = "crashed"
            /\ available_questions' = available_questions
       ELSE /\ available_questions' = available(data)
            /\ pc' = IF mode = "interactive" THEN "categories" ELSE "pick"
            /\ exc' = exc
    /\ UNCHANGED <<mode, dir, excel_files, idx, data, reports, out,
                   ai_question, trends, question_categories, question_column>>
    /\ UNCHANGED orderVars

\* interactive: question_categories = {...}
BuildCategories ==
    /\ pc = "categories"
    /\ IF CategoriesRaise(available_questions)
       THEN /\ exc' = "NameError"
            /\ pc' = "crashed"
            /\ question_categories' = question_categories
       ELSE /\ question_categories' = categories(available_questions)
            /\ pc' = "select"
            /\ exc' = exc
    /\ UNCHANGED <<mode, dir, excel_files, idx, data, reports, out, available_questions,
                   ai_question, trends, question_column>>
    /\ UNCHANGED orderVars

\* interactive: the two select boxes, the trend chart and the detail table
SelectQuestion ==
    /\ pc = "select"
    /\ \E c \in 1..Len(question_categories) :
         IF question_categories[c].questions # <<>>
         THEN \E q \in Range(question_categories[c].questions) :
                /\ question_column' = q
                /\ trends' = analyze_question_trends(data, q)
                /\ out' = IF trends' # <<>>
                          THEN out \o <<Shown("trend_chart", sorted_chrono(TrendKeys(trends'))),
                                        Shown("detail_table", sorted_chrono(TrendKeys(trends')))>>
                          ELSE Append(out, Shown("no_trend", <<>>))
         ELSE UNCHANGED <<question_column, trends, out>>
    /\ pc' = "insights"
    /\ UNCHANGED <<mode, dir, excel_files, idx, data, reports, available_questions,
                   ai_question, exc, question_categories>>
    /\ UNCHANGED orderVars

\* interactive: the response-count chart and table
QuickInsights ==
    /\ pc = "insights"
    /\ out' = out \o <<Shown("count_chart", sorted_chrono(DictKeys(data))),
                       Shown("count_table", sorted_chrono(DictKeys(data)))>>
    /\ pc' = "done"
    /\ UNCHANGED <<mode, dir, excel_files, idx, data, reports, available_questions,
                   ai_question, trends, exc, question_categories, question_column>>
    /\ UNCHANGED orderVars

\* demo: the AI efficiency question and its printed trend
DemoTrend ==
    /\ pc = "pick"
    /\ ai_question' = pick_ai_question(available_questions)
    /\ IF ai_question' # None
       THEN /\ question_column' = ai_question'[1]
            /\ trends' = analyze_question_trends(data, ai_question'[1])
            /\ out' = IF trends' # <<>>
                      THEN Append(out, Shown("trend_listing", sorted_alpha(TrendKeys(trends'))))
                      ELSE Append(out, Shown("no_trend", <<>>))
       ELSE UNCHANGED <<question_column, trends, out>>
    /\ pc' = "counts"
    /\ UNCHANGED <<mode, dir, excel_files, idx, data, reports, available_questions,
                   exc, question_categories>>
    /\ UNCHANGED orderVars

\* demo: the printed response count per period
DemoCounts ==
    /\ pc = "counts"
    /\ out' = Append(out, Shown("count_listing", sorted_alpha(DictKeys(data))))
    /\ pc' = "done"
    /\ UNCHANGED <<mode, dir, excel_files, idx, data, reports, available_questions,
                   ai_question, trends, exc, question_categories, question_column>>
    /\ UNCHANGED orderVars

Next ==
    \/ ListDir
    \/ LoadFile
    \/ CheckData
    \/ Summary
    \/ Questions
    \/ BuildCategories
    \/ SelectQuestion
    \/ QuickInsights
    \/ DemoTrend
    \/ DemoCounts

Spec == Init /\ [][Next]_vars

----------------------------------------------------------------------------
(* analyze_question_trends on its own (SpecTrend, SpecSum) *)

TrendPeriods == {"January", "March"}

\* the Datasets given to the aggregator: a question column "Q" of up to
\* MaxRows cells over {missing, Yes, No}, with or without a Timestamp column
TrendCells == {None, <<"Yes">>, <<"No">>}

TrendDatasets ==
    UNION {
        {[columns |-> <<"Timestamp", "Q">>,
          rows |-> [r \in 1..n |-> << <<"t">>, cells[r] >>]] : cells \in [1..n -> TrendCells]}
        \cup
        {[columns |-> <<"Q">>,
          rows |-> [r \in 1..n |-> << cells[r] >>]] : cells \in [1..n -> TrendCells]}
        \cup
        {[columns |-> <<"Timestamp">>, rows |-> [r \in 1..n |-> << <<"t">> >>]]}
        : n \in 0..MaxRows}

InitCall ==
    /\ mode = Idle
    /\ dir = <<>>
    /\ excel_files = <<>>
    /\ idx = 1
    /\ reports = <<>>
    /\ out = <<>>
    /\ available_questions = <<>>
    /\ ai_question = None
    /\ exc = "none"
    /\ question_categories = <<>>

InitTrend ==
    /\ InitCall
    /\ \/ data = <<>>
       \/ \E m \in TrendPeriods, df \in TrendDatasets :
             data = <<[month |-> m, df |-> df]>>
       \/ \E m1 \in TrendPeriods, df1 \in TrendDatasets, df2 \in TrendDatasets :
             \E m2 \in TrendPeriods \ {m1} :
                data = <<[month |-> m1, df |-> df1], [month |-> m2, df |-> df2]>>
    /\ question_column \in {"Q", "Timestamp"}
    /\ pc = "trend_call"
    /\ trends = <<>>
    /\ keys = <<>>
    /\ sort_keys = <<>>
    /\ sorted_months = <<>>
    /\ most_recent = <<>>

\* trends = analyze_question_trends(data, question_column)
AnalyzeTrends ==
    /\ pc = "trend_call"
    /\ trends' = analyze_question_trends(data, question_column)
    /\ pc' = "trend_done"
    /\ UNCHANGED <<data, question_column>>
    /\ UNCHANGED mainVars
    /\ UNCHANGED orderVars

NextTrend == AnalyzeTrends

SpecTrend == InitTrend /\ [][NextTrend]_vars

\* a column of n cells, the cells of one answer together: 0 is a missing
\* cell and v >= 1 the answer ToString(v)
RECURSIVE GroupedColumns(_, _)
GroupedColumns(n, from) ==
    IF n = 0 THEN {<<>>}
    ELSE UNION {{<<IF v = 0 THEN None ELSE <<ToString(v)>>>> \o rest :
                    rest \in GroupedColumns(n - 1, v)} : v \in from..MaxSumValues}

InitSum ==
    /\ InitCall
    /\ \E n \in 0..MaxSumRows :
         \E cells \in GroupedColumns(n, 0) :
            data = <<[month |-> "January",
                      df |-> [columns |-> <<"Q">>,
                              rows |-> [r \in 1..n |-> <<cells[r]>>]]]>>
    /\ question_column = "Q"
    /\ pc = "trend_call"
    /\ trends = <<>>
    /\ keys = <<>>
    /\ sort_keys = <<>>
    /\ sorted_months = <<>>
    /\ most_recent = <<>>

SpecSum == InitSum /\ [][NextTrend]_vars

----------------------------------------------------------------------------
(* extract_month_order under sorted() and max() (SpecOrder) *)

OrderLabels == DOMAIN month_mapping
                   \cup {"Unlabeled", "Unlabeled1", "Unlabeled2", "march", "Mar"}

InitOrder ==
    /\ InitCall
    /\ \E n \in 1..MaxKeys :
         keys \in {labels \in [1..n -> OrderLabels] :
                      \A a, b \in 1..n : a # b => labels[a] # labels[b]}
    /\ data = <<>>
    /\ question_column = Idle
    /\ trends = <<>>
    /\ pc = "order_call"
    /\ sort_keys = <<>>
    /\ sorted_months = <<>>
    /\ most_recent = <<>>

\* sorted_months = sorted(keys, key=extract_month_order)
SortMonths ==
    /\ pc = "order_call"
    /\ sort_keys' = [n \in 1..Len(keys) |-> extract_month_order(keys[n])]
    /\ sorted_months' = sorted_chrono(keys)
    /\ pc' = "order_sorted"
    /\ UNCHANGED <<keys, most_recent, data, question_column, trends>>
    /\ UNCHANGED mainVars

\* most_recent = max(keys, key=extract_month_order)
MostRecent ==
    /\ pc = "order_sorted"
    /\ most_recent' = <<max_chrono(keys)>>
    /\ pc' = "order_done"
    /\ UNCHANGED <<keys, sort_keys, sorted_months, data, question_column, trends>>
    /\ UNCHANGED mainVars

NextOrder == SortMonths \/ MostRecent

SpecOrder == InitOrder /\ [][NextOrder]_vars

----------------------------------------------------------------------------
(* Properties of a run (Spec) *)

\* t is the first whitespace-delimited token of f, stated from the text of f
IsFirstTokenOf(t, f) ==
    /\ t # ""
    /\ \E a \in 1..(Len(f) - Len(t) + 1) :
        /\ t = SubSeq(f, a, a + Len(t) - 1)
        /\ \A m \in 1..(a - 1) : SubSeq(f, m, m) \in {" ", "\t"}
        /\ \A m \in 1..Len(t) : SubSeq(t, m, m) \notin {" ", "\t"}
        /\ (a + Len(t) - 1 = Len(f)
              \/ SubSeq(f, a + Len(t), a + Len(t)) \in {" ", "\t"})

\* the files the load loop has gone through
Processed == SubSeq(excel_files, 1, idx - 1)

Parses(file) == file.content # <<>>

LoadOver == pc \notin {"start", "load"}

\* C6: a file that fails to parse is reported and skipped, and nothing else:
\* at every point of the load loop the reports are exactly the failed files
\* gone through, in order, the mapping holds exactly the labels of the
\* parsed ones with Datasets that come from parsed files, no exception has
\* left the Loader, and the loop ends only after the last file; one parsed
\* file and one failed file give exactly one entry.
C6_FailedFilesAreSkipped ==
    pc # "start" =>
       /\ reports = [n \in 1..Len(SelectSeq(Processed, LAMBDA file : ~Parses(file))) |->
                        SelectSeq(Processed, LAMBDA file : ~Parses(file))[n].name]
       /\ \A n \in 1..Len(data) :
            \E m \in 1..Len(Processed) :
                /\ Parses(Processed[m])
                /\ IsFirstTokenOf(data[n].month, Processed[m].name)
                /\ data[n].df = Processed[m].content[1]
       /\ \A m \in 1..Len(Processed) :
            Parses(Processed[m]) =>
                \E n \in 1..Len(data) : IsFirstTokenOf(data[n].month, Processed[m].name)
       /\ (pc \in {"load", "summary"} => exc = "none")
       /\ (LoadOver => idx = Len(excel_files) + 1)
       /\ (LoadOver /\ Len(excel_files) = 2
             /\ Parses(excel_files[1]) # Parses(excel_files[2]) => Len(data) = 1)

\* C6 witness: the load is over, a file failed and a later one was loaded
C6_Witness ==
    /\ pc = "summary"
    /\ \E a, b \in 1..Len(excel_files) :
         /\ a < b
         /\ ~Parses(excel_files[a])
         /\ Parses(excel_files[b])
         /\ excel_files[a].name \in Range(reports)
         /\ \E n \in 1..Len(data) : data[n].df = excel_files[b].content[1]

\* C9: the label is the first token of the file name; per label the mapping
\* holds one entry, with the Dataset of the last parsed file of that label
\* gone through; so there are no more entries than parsed files.
C9_LastParsedFileWins ==
    pc # "start" =>
       /\ \A n \in 1..Len(data) :
            \E m \in 1..Len(Processed) :
                /\ Parses(Processed[m])
                /\ IsFirstTokenOf(data[n].month, Processed[m].name)
                /\ data[n].df = Processed[m].content[1]
                /\ \A later \in (m + 1)..Len(Processed) :
                      ~(Parses(Processed[later])
                          /\ IsFirstTokenOf(data[n].month, Processed[later].name))
       /\ \A a, b \in 1..Len(data) : a # b => data[a].month # data[b].month
       /\ Len(data) <= Cardinality({m \in 1..Len(Processed) : Parses(Processed[m])})

\* C9 witness: two parsed files of one label with different Datasets, the
\* mapping holding the later one's under that label
C9_Witness ==
    /\ LoadOver
    /\ \E a, b \in 1..Len(excel_files) :
         /\ a < b
         /\ Parses(excel_files[a]) /\ Parses(excel_files[b])
         /\ excel_files[a].content # excel_files[b].content
         /\ \E t \in {data[n].month : n \in 1..Len(data)} :
              /\ IsFirstTokenOf(t, excel_files[a].name)
              /\ IsFirstTokenOf(t, excel_files[b].name)
              /\ \E n \in 1..Len(data) :
                    data[n].month = t /\ data[n].df = excel_files[b].content[1]
    /\ Len(data) < Cardinality({m \in 1..Len(excel_files) : Parses(excel_files[m])})

QuestionsBuilt ==
    \/ pc \in {"categories", "select", "insights", "pick", "counts"}
    \/ (pc \in {"done", "crashed"} /\ data # <<>>)

\* C10: the available questions are the columns of the first Dataset of the
\* mapping other than 'Timestamp', in column order; the question analysed
\* is one of them.
C10_QuestionsOfFirstDataset ==
    QuestionsBuilt =>
       /\ available_questions =
             SelectSeq(data[1].df.columns, LAMBDA col : col # "Timestamp")
       /\ (ai_question # <<>> => ai_question[1] \in Range(data[1].df.columns))
       /\ (question_column # "idle" =>
             question_column \in Range(data[1].df.columns) \ {"Timestamp"})

\* C10 witness: a question that only a later period has is not in the list
C10_Witness ==
    /\ pc = "done"
    /\ Len(data) >= 2
    /\ available_questions # <<>>
    /\ "Timestamp" \in Range(data[1].df.columns)
    /\ \E col \in Range(data[2].df.columns) :
         col # "Timestamp" /\ col \notin Range(available_questions)

\* C7: once the interactive main is past building the categories, it has
\* raised nothing and every available question is in some bucket.
C7_EveryQuestionInABucket ==
    (mode = "interactive" /\ available_questions # <<>>
        /\ pc \in {"select", "insights", "done", "crashed"}) =>
       /\ exc = "none"
       /\ \A q \in Range(available_questions) :
            \E c \in 1..Len(question_categories) :
                q \in Range(question_categories[c].questions)

CalendarMonths == <<"January", "February", "March", "April", "May", "June", "July",
                    "August", "September", "October", "November", "December">>

\* the Chronology Ordinal, stated from the calendar
CalendarOrdinal(label) ==
    IF \E m \in 1..12 : CalendarMonths[m] = label
    THEN CHOOSE m \in 1..12 : CalendarMonths[m] = label
    ELSE 13

\* C5: every displayed list of periods is in non-decreasing Chronology
\* Ordinal order.
C5_PeriodsShownInChronologicalOrder ==
    \A e \in 1..Len(out) :
        \A a, b \in 1..Len(out[e].months) :
            a < b => CalendarOrdinal(out[e].months[a]) <= CalendarOrdinal(out[e].months[b])

----------------------------------------------------------------------------
(* Properties of the Trend Aggregator (SpecTrend, SpecSum) *)

\* the cells of the target column of a Dataset that has it, read off the rows
CellsOf(df, column) ==
    {<<r, df.rows[r][c]>> : r \in 1..Len(df.rows),
                            c \in {c \in 1..Len(df.columns) : df.columns[c] = column}}

Answered(df, column) == {rc \in CellsOf(df, column) : rc[2] # <<>>}

TrendAt(month) == (trends[CHOOSE n \in 1..Len(trends) : trends[n].month = month]).pct

\* C1: the periods of the Trend Map are exactly the periods of the mapping
\* whose Dataset has the column with at least one non-missing value, each
\* once, and none of them has an empty answer map.
C1_TrendMapPeriods ==
    pc = "trend_done" =>
       /\ {trends[n].month : n \in 1..Len(trends)} =
             {data[m].month : m \in {m \in 1..Len(data) :
                                        Answered(data[m].df, question_column) # {}}}
       /\ \A a, b \in 1..Len(trends) : a # b => trends[a].month # trends[b].month
       /\ \A n \in 1..Len(trends) : DOMAIN trends[n].pct # {}

\* C1 witness: of two periods, one whose column holds only missing values
\* is left out and the other is kept
C1_Witness ==
    /\ pc = "trend_done"
    /\ Len(data) = 2
    /\ Len(trends) = 1
    /\ \E m \in 1..2 :
         /\ CellsOf(data[m].df, question_column) # {}
         /\ Answered(data[m].df, question_column) = {}
         /\ data[m].month # trends[1].month

\* C2: the answers of a period of the Trend Map are the distinct non-missing
\* values of its column, each with the hundredth nearest to
\* 100 * occurrences / non-missing rows; on the example of the
\* specification the Trend Map is
\* {January: {Yes: 66.67, No: 33.33}, March: {No: 100.0}}.
C2_PercentagesOfNonMissing ==
    pc = "trend_done" =>
       /\ \A m \in 1..Len(data) :
            data[m].month \in {trends[n].month : n \in 1..Len(trends)} =>
               LET answered == Answered(data[m].df, question_column)
                   pct == TrendAt(data[m].month)
               IN  /\ DOMAIN pct = {rc[2][1] : rc \in answered}
                   /\ \A v \in DOMAIN pct :
                        LET times == Cardinality({rc \in answered : rc[2] = <<v>>})
                            off == pct[v] * Cardinality(answered) - 10000 * times
                        IN  /\ 2 * off <= Cardinality(answered)
                            /\ -2 * off <= Cardinality(answered)
       /\ (/\ question_column = "Q"
           /\ data = <<[month |-> "January",
                        df |-> [columns |-> <<"Q">>,
                                rows |-> << << <<"Yes">> >>, << <<"Yes">> >>, << <<"No">> >> >>]],
                       [month |-> "March",
                        df |-> [columns |-> <<"Q">>,
                                rows |-> << << <<"No">> >>, << <<>> >> >>]]>>)
          => trends = <<[month |-> "January", pct |-> ("Yes" :> 6667) @@ ("No" :> 3333)],
                        [month |-> "March", pct |-> ("No" :> 10000)]>>

\* C2 witness: the example of the specification, aggregated
C2_Witness ==
    /\ pc = "trend_done"
    /\ question_column = "Q"
    /\ Len(data) = 2
    /\ data[1].month = "January"
    /\ data[1].df.rows = << << <<"Yes">> >>, << <<"Yes">> >>, << <<"No">> >> >>
    /\ data[2].df.rows = << << <<"No">> >>, << <<>> >> >>
    /\ Len(trends) = 2
    /\ trends[1].pct["Yes"] = 6667

RECURSIVE SumOver(_, _)
SumOver(f, S) ==
    IF S = {} THEN 0
    ELSE LET v == CHOOSE v \in S : TRUE IN f[v] + SumOver(f, S \ {v})

\* how far the percentages of a period are from 100.00, in hundredths
SumOff(pct) ==
    IF SumOver(pct, DOMAIN pct) >= 10000
    THEN SumOver(pct, DOMAIN pct) - 10000
    ELSE 10000 - SumOver(pct, DOMAIN pct)

\* C3 as written: with up to 50 distinct values the percentages of a period
\* sum to 100.00 within 0.02.
C3_SumWithinTwoHundredths ==
    \A n \in 1..Len(trends) :
        Cardinality(DOMAIN trends[n].pct) <= 50 => SumOff(trends[n].pct) <= 2

\* C3 amended: the percentages of a period with k distinct values sum to
\* 100.00 within 0.005 * k, hence within 0.02 when k is at most 5.
C3_SumWithinHalfHundredthPerValue ==
    \A n \in 1..Len(trends) :
        /\ 2 * SumOff(trends[n].pct) <= Cardinality(DOMAIN trends[n].pct)
        /\ (Cardinality(DOMAIN trends[n].pct) <= 5 => SumOff(trends[n].pct) <= 2)

\* C3 witness: seven answers given once each sum to 100.03
C3_Witness ==
    /\ pc = "trend_done"
    /\ Len(trends) = 1
    /\ Cardinality(DOMAIN trends[1].pct) = 7
    /\ SumOver(trends[1].pct, DOMAIN trends[1].pct) = 10003

----------------------------------------------------------------------------
(* Properties of the Chronology Resolver (SpecOrder) *)

\* C4: the ordinal computed for a label is its place in the calendar for
\* the twelve month names spelled exactly, and 13 for anything else; so
\* March comes before November, November before an unrecognized label, and
\* two unrecognized labels get the same ordinal.
C4_MonthOrdinals ==
    pc \in {"order_sorted", "order_done"} =>
       /\ Len(sort_keys) = Len(keys)
       /\ \A n \in 1..Len(keys) : sort_keys[n] = CalendarOrdinal(keys[n])
       /\ \A a, b \in 1..Len(keys) :
            /\ (keys[a] = "March" /\ keys[b] = "November" => sort_keys[a] < sort_keys[b])
            /\ (keys[a] = "November" /\ keys[b] = "Unlabeled" => sort_keys[a] < sort_keys[b])
            /\ (keys[a] = "Unlabeled1" /\ keys[b] = "Unlabeled2"
                  => sort_keys[a] = 13 /\ sort_keys[b] = 13)

\* C4 witness: an unrecognized label and a month, sorted
C4_Witness ==
    /\ pc = "order_sorted"
    /\ keys = <<"Unlabeled", "November">>
    /\ sort_keys = <<13, 11>>
    /\ sorted_months = <<"November", "Unlabeled">>

====
